---- MODULE Spec2Model ----
(***************************************************************************)
(* Model of the planrun orchestrator core: Graph (node registry, edges,    *)
(* Kahn leveling), Context (flat key/value store), Node.execute and the    *)
(* level-by-level asyncio Runner.                                          *)
(*                                                                         *)
(* Two specifications share the variables:                                 *)
(*   SpecGraph  builds a graph with add_node/add_edge and queries levels;  *)
(*   Spec       builds a (smaller) graph and then executes Runner.run,     *)
(*              one action per step between two awaits of the event loop.  *)
(***************************************************************************)
EXTENDS Integers, Sequences, FiniteSets, TLC

\* ------------------------------------------------------------------ bounds
\* Graph-only specification: number of registered nodes / recorded edges.
MaxNodes == 4
MaxEdges == 4
\* Runner specification: number of registered nodes / recorded edges.
RunNodes == 3
RunEdges == 2

\* Node ids are opaque strings to Graph (compared by equality only), so nodes
\* are registered in this canonical order; edges may point in any direction.
IdSeq == <<"a", "b", "c", "d", "e", "f">>

Min(x, y) == IF x < y THEN x ELSE y

IdsUpTo(n) == {IdSeq[i] : i \in 1..Min(n, Len(IdSeq))}

VARIABLES
    nodes,      \* Graph._nodes: registered ids, in dict (insertion) order
    edges,      \* Graph._edges: id -> set of successor ids
    reverse,    \* Graph._reverse: id -> set of predecessor ids
    replaced,   \* id whose stored Node the latest Graph call replaced, or "none"
    err,        \* exception raised by the latest call: "none", "ValueError", "CycleError"
    pc,         \* "build", "queried", "level", "gather", "done", "raised"
    levels,     \* value returned by the latest graph.levels (list of lists of ids)
    failFast,   \* Runner.fail_fast
    dryRun,     \* Runner.dry_run
    levelIdx,   \* level_idx of the loop in Runner.run (0-based, as in the code)
    pending,    \* tasks of the current level handed to gather and not yet started (FIFO)
    running,    \* ids whose node.execute has started and not yet returned
    results,    \* RunReport.results: id -> NodeResult
    ctx,        \* Context._data: key string -> value
    invoked,    \* history: id -> number of node.execute calls made for it in this run
    seen,       \* history: id -> context keys the node observed on its latest read
    retry,      \* a RetryNode: its configuration and the position of its run()
    merged,     \* history: <<namespace, k>> -> value last passed to Context.merge for it
    tpl,        \* a Context.format_template call: its argument and its return value
    writes      \* history: id -> number of assignments report.results[id] = ... in this run

graphVars == <<nodes, edges, reverse, replaced>>
runVars == <<failFast, dryRun, levelIdx, pending, running, results, ctx, invoked, seen,
            retry, merged, tpl, writes>>
vars == <<nodes, edges, reverse, replaced, err, pc, levels, failFast, dryRun, levelIdx,
          pending, running, results, ctx, invoked, seen, retry, merged, tpl,
          writes>>

Registered == {nodes[i] : i \in 1..Len(nodes)}

EdgeCount == Cardinality({p \in Registered \X Registered : p[2] \in edges[p[1]]})

\* ------------------------------------------------------------ Graph.levels
\* Iteration order of a Python set of strings is unspecified; the model
\* iterates a successor set in registration order (rev = FALSE) or in the
\* opposite order (rev = TRUE), chosen by the caller.
SetAsSeq(S, rev) ==
    LET fwd == SelectSeq(nodes, LAMBDA x : x \in S)
    IN IF rev THEN [i \in 1..Len(fwd) |-> fwd[Len(fwd) + 1 - i]] ELSE fwd

\* mutant: the in-degree is counted on the forward adjacency map
InDegree_Forward == [n \in Registered |-> Cardinality(edges[n])]

\* in_degree = {nid: len(self._reverse.get(nid, set())) for nid in self._nodes}
InDegree == [n \in Registered |-> Cardinality(reverse[n])]

\* queue = deque(nid for nid, deg in in_degree.items() if deg == 0)
InitialQueue(deg) == SelectSeq(nodes, LAMBDA n : deg[n] = 0)

\* if in_degree[succ] == 0: queue.append(succ)
ReachedZero(d) == d = 0

\* for succ in self._edges.get(nid, set()): in_degree[succ] -= 1; enqueue at 0
RECURSIVE RelaxSuccs(_, _, _)
RelaxSuccs(succs, deg, queue) ==
    IF succs = <<>> THEN <<deg, queue>>
    ELSE LET s == Head(succs)
             deg2 == [deg EXCEPT ![s] = @ - 1]
             queue2 == IF ReachedZero(deg2[s]) THEN Append(queue, s) ELSE queue
         IN RelaxSuccs(Tail(succs), deg2, queue2)

\* mutant: one node per level instead of the whole current frontier
LevelSize_One(queue) == 1

\* for _ in range(len(queue)): the number of nodes drained as one level
LevelSize(queue) == Len(queue)

\* body of the for loop, k iterations: popleft, append to level, relax successors
RECURSIVE DrainLevel(_, _, _, _, _, _)
DrainLevel(k, deg, queue, level, visited, rev) ==
    IF k = 0 THEN <<deg, queue, level, visited>>
    ELSE LET nid == Head(queue)
             r == RelaxSuccs(SetAsSeq(edges[nid], rev), deg, Tail(queue))
         IN DrainLevel(k - 1, r[1], r[2], Append(level, nid), visited + 1, rev)

\* while queue: ... levels.append(level)
RECURSIVE KahnLoop(_, _, _, _, _)
KahnLoop(deg, queue, lvls, visited, rev) ==
    IF queue = <<>> THEN <<lvls, visited>>
    ELSE LET d == DrainLevel(LevelSize(queue), deg, queue, <<>>, visited, rev)
         IN KahnLoop(d[1], d[2], Append(lvls, d[3]), d[4], rev)

\* mutant: a cycle is reported only when no node at all could be emitted
CycleDetected_NoneVisited(visited) == visited = 0 /\ Len(nodes) > 0

\* if visited != len(self._nodes): raise CycleError
CycleDetected(visited) == visited # Len(nodes)

\* mutant: the visited count is not checked, the levels found are returned
GraphLevels_NoCheck(rev) ==
    [raised |-> FALSE,
     value |-> KahnLoop(InDegree, InitialQueue(InDegree), <<>>, 0, rev)[1]]

\* Graph.levels: [raised |-> TRUE] or [raised |-> FALSE, value |-> levels]
GraphLevels(rev) ==
    LET k == KahnLoop(InDegree, InitialQueue(InDegree), <<>>, 0, rev)
    IN IF CycleDetected(k[2]) THEN [raised |-> TRUE, value |-> <<>>]
       ELSE [raised |-> FALSE, value |-> k[1]]

\* ------------------------------------------------------------------- Init
\* "no NodeResult yet" (None)
NoResult ==
    [status |-> "NONE", outputs |-> <<>>, error |-> "", level |-> -1, dry_run |-> FALSE]

\* RetryNode.__init__(node_id, verify_node, fix_node, max_retries, pass_key);
\* attempt, attempts, lastVerify are the locals of run(), trace the history of
\* the sub-node executions, result the value run() returned.
RetryNodeNew(mr, pk) ==
    [pc |-> "idle", maxRetries |-> mr, passKey |-> pk, attempt |-> 0,
     attempts |-> <<>>, lastVerify |-> NoResult, trace |-> <<>>, result |-> NoResult]

\* no format_template call made yet
TemplateCallNew == [pc |-> "idle", template |-> <<>>, result |-> <<>>]

Init ==
    /\ retry = RetryNodeNew(3, "passed")
    /\ merged = <<>>
    /\ tpl = TemplateCallNew
    /\ nodes = <<>>
    /\ edges = <<>>
    /\ reverse = <<>>
    /\ replaced = "none"
    /\ err = "none"
    /\ pc = "build"
    /\ levels = <<>>
    /\ failFast = FALSE
    /\ dryRun = FALSE
    /\ levelIdx = 0
    /\ pending = <<>>
    /\ running = {}
    /\ results = <<>>
    /\ ctx = <<>>
    /\ invoked = <<>>
    /\ seen = <<>>
    /\ writes = <<>>

\* --------------------------------------------------------- Graph mutation
\* mutant: re-registration empties the successor set of the id
AddNode_ResetSuccessors(n) ==
    /\ pc \in {"build", "queried"}
    /\ nodes' = IF n \in Registered THEN nodes ELSE Append(nodes, n)
    /\ replaced' = IF n \in Registered THEN n ELSE "none"
    /\ edges' = IF n \in DOMAIN edges THEN [edges EXCEPT ![n] = {}] ELSE (n :> {}) @@ edges
    /\ reverse' = IF n \in DOMAIN reverse THEN reverse ELSE (n :> {}) @@ reverse
    /\ err' = "none"
    /\ pc' = "build"
    /\ levels' = <<>>
    /\ UNCHANGED runVars

\* mutant: re-registration empties both adjacency entries of the id
AddNode_Reset(n) ==
    /\ pc \in {"build", "queried"}
    /\ nodes' = IF n \in Registered THEN nodes ELSE Append(nodes, n)
    /\ replaced' = IF n \in Registered THEN n ELSE "none"
    /\ edges' = (n :> {}) @@ edges
    /\ reverse' = (n :> {}) @@ reverse
    /\ err' = "none"
    /\ pc' = "build"
    /\ levels' = <<>>
    /\ UNCHANGED runVars

\* Graph.add_node: a fresh id is appended to the registry with empty adjacency
\* entries; for a registered id the node object is replaced in place and
\* setdefault leaves both adjacency entries as they are.
AddNode(n) ==
    /\ pc \in {"build", "queried"}
    /\ nodes' = IF n \in Registered THEN nodes ELSE Append(nodes, n)
    /\ replaced' = IF n \in Registered THEN n ELSE "none"
    /\ edges' = IF n \in DOMAIN edges THEN edges ELSE (n :> {}) @@ edges
    /\ reverse' = IF n \in DOMAIN reverse THEN reverse ELSE (n :> {}) @@ reverse
    /\ err' = "none"
    /\ pc' = "build"
    /\ levels' = <<>>
    /\ UNCHANGED runVars

\* mutant: the forward entry is written before the target is looked up
AddEdge_HalfRecorded(s, t) ==
    /\ pc \in {"build", "queried"}
    /\ IF s \notin Registered
       THEN /\ err' = "ValueError"
            /\ UNCHANGED <<edges, reverse>>
       ELSE IF t \notin Registered
       THEN /\ err' = "ValueError"
            /\ edges' = [edges EXCEPT ![s] = @ \cup {t}]
            /\ UNCHANGED reverse
       ELSE /\ edges' = [edges EXCEPT ![s] = @ \cup {t}]
            /\ reverse' = [reverse EXCEPT ![t] = @ \cup {s}]
            /\ err' = "none"
    /\ replaced' = "none"
    /\ pc' = "build"
    /\ levels' = <<>>
    /\ UNCHANGED <<nodes, runVars>>

\* Graph.add_edge: ValueError (nothing recorded) when an end is unregistered
AddEdge(s, t) ==
    /\ pc \in {"build", "queried"}
    /\ replaced' = "none"
    /\ IF s \notin Registered \/ t \notin Registered
       THEN /\ err' = "ValueError"
            /\ UNCHANGED <<edges, reverse>>
       ELSE /\ edges' = [edges EXCEPT ![s] = @ \cup {t}]
            /\ reverse' = [reverse EXCEPT ![t] = @ \cup {s}]
            /\ err' = "none"
    /\ pc' = "build"
    /\ levels' = <<>>
    /\ UNCHANGED <<nodes, runVars>>

\* A caller reads the graph.levels property outside a run.
QueryLevels(rev) ==
    /\ pc = "build"
    /\ LET r == GraphLevels(rev)
       IN /\ err' = IF r.raised THEN "CycleError" ELSE "none"
          /\ levels' = r.value
    /\ pc' = "queried"
    /\ replaced' = "none"
    /\ UNCHANGED <<nodes, edges, reverse, runVars>>

\* add_node / add_edge calls within the bounds maxN, maxE
Build(maxN, maxE) ==
    \/ \E n \in Registered \cup {IdSeq[Min(Len(nodes) + 1, Len(IdSeq))]} :
          /\ (n \in Registered \/ Len(nodes) < Min(maxN, Len(IdSeq)))
          /\ AddNode(n)
    \/ \E s, t \in IdsUpTo(maxN) :
          /\ EdgeCount < maxE
          /\ AddEdge(s, t)

NextGraph ==
    \/ Build(MaxNodes, MaxEdges)
    \/ \E rev \in BOOLEAN : QueryLevels(rev)

SpecGraph == Init /\ [][NextGraph]_vars

\* ---------------------------------------------------------------- Context
\* f"{namespace}.{k}"
Key(ns, k) == ns \o "." \o k

\* Context.merge: self._data[f"{namespace}.{k}"] = v for every (k, v) of outputs
CtxMerge(c, ns, outputs) ==
    LET written == {Key(ns, k) : k \in DOMAIN outputs}
    IN [key \in DOMAIN c \cup written |->
          IF key \in written
          THEN outputs[CHOOSE k \in DOMAIN outputs : Key(ns, k) = key]
          ELSE c[key]]

\* Contexts a caller hands to Runner.run: Context() or a pre-seeded one.
InitialContexts == {<<>>, ("seed" :> "s")}

\* Context.get(key, default)
CtxGet(c, key, default) == IF key \in DOMAIN c THEN c[key] ELSE default

\* Namespaces and output maps handed to Context.merge: plain and dotted
\* namespaces (RetryNode merges under "{node_id}.verify"), plain and dotted keys.
CtxNamespaces == {"a", "a.b", "b"}

CtxOutputs ==
    { ("c" :> "1"), ("b.c" :> "2"), ("c" :> "3") @@ ("k" :> "4"), ("k" :> "5") }

\* A fresh Context, optionally pre-seeded.
InitCtx ==
    /\ ctx \in InitialContexts
    /\ merged = <<>>
    /\ tpl = TemplateCallNew
    /\ retry = RetryNodeNew(3, "passed")
    /\ nodes = <<>>
    /\ edges = <<>>
    /\ reverse = <<>>
    /\ replaced = "none"
    /\ err = "none"
    /\ pc = "build"
    /\ levels = <<>>
    /\ failFast = FALSE
    /\ dryRun = FALSE
    /\ levelIdx = 0
    /\ pending = <<>>
    /\ running = {}
    /\ results = <<>>
    /\ invoked = <<>>
    /\ seen = <<>>
    /\ writes = <<>>

\* A caller invokes ctx.merge(ns, outs); merged remembers what was passed.
CtxMergeCall(ns, outs) ==
    /\ ctx' = CtxMerge(ctx, ns, outs)
    /\ merged' =
          LET now == {<<ns, k>> : k \in DOMAIN outs}
          IN [p \in DOMAIN merged \cup now |-> IF p \in now THEN outs[p[2]] ELSE merged[p]]
    /\ UNCHANGED <<graphVars, err, pc, levels, failFast, dryRun, levelIdx, pending,
                   running, results, invoked, seen, retry, tpl, writes>>

NextCtx == \E ns \in CtxNamespaces : \E outs \in CtxOutputs : CtxMergeCall(ns, outs)

SpecCtx == InitCtx /\ [][NextCtx]_vars

\* ------------------------------------------------ Context.format_template
\* Longest template handed to format_template.
MaxTemplate == 6
RunRetries == 2

\* A template is a sequence of characters.
TemplateChars == {"{", "}", "a", "."}

Templates == UNION {[1..k -> TemplateChars] : k \in 0..MaxTemplate}

\* the string made of a sequence of characters
RECURSIVE Join(_)
Join(chars) == IF chars = <<>> THEN "" ELSE Head(chars) \o Join(Tail(chars))

\* Context values are written as the characters of their repr: the int 7, the
\* str '{a.a}', the bool True.  str(value): a string loses its quotes, the other
\* values print as their repr.
Str(v) == IF v # <<>> /\ v[1] = "'" THEN SubSeq(v, 2, Len(v) - 1) ELSE v

\* Contexts format_template is called on: empty, a plain key, a plain and a
\* dotted key (the latter as Context.merge("a", {"a": True}) leaves it), the
\* value of the plain key being a string that reads as a placeholder itself.
TemplateContexts ==
    { <<>>,
      ("a" :> <<"7">>),
      ("a" :> <<"'", "{", "a", ".", "a", "}", "'">>) @@ ("a.a" :> <<"T", "r", "u", "e">>) }

IsBrace(ch) == ch \in {"{", "}"}

\* _TEMPLATE_RE = \{([^{}]+)\} tried at position i: the index of the closing
\* brace of the match, or 0 when the pattern does not match at i.
MatchEnd(t, i) ==
    IF t[i] # "{" THEN 0
    ELSE LET stops == {j \in (i + 1)..Len(t) : IsBrace(t[j])}
         IN IF stops = {} THEN 0
            ELSE LET j == CHOOSE x \in stops : \A y \in stops : x <= y
                 IN IF t[j] = "}" /\ j > i + 1 THEN j ELSE 0

\* mutant: a placeholder whose key is missing is replaced by the empty string
Replace_MissingEmpty(c, key, whole) == IF key \in DOMAIN c THEN Str(c[key]) ELSE <<>>

\* _replace(match): str(self._data[key]) if key in self._data else match.group(0)
Replace(c, key, whole) == IF key \in DOMAIN c THEN Str(c[key]) ELSE whole

\* mutant: the scan goes on at the start of the text just inserted
RECURSIVE Sub_Rescan(_, _, _, _)
Sub_Rescan(c, t, i, out) ==
    IF i > Len(t) THEN out
    ELSE LET j == MatchEnd(t, i)
         IN IF j = 0 THEN Sub_Rescan(c, t, i + 1, Append(out, t[i]))
            ELSE IF Join(SubSeq(t, i + 1, j - 1)) \in DOMAIN c
            THEN Sub_Rescan(c,
                            SubSeq(t, 1, i - 1)
                               \o Str(c[Join(SubSeq(t, i + 1, j - 1))])
                               \o SubSeq(t, j + 1, Len(t)),
                            i, out)
            ELSE Sub_Rescan(c, t, j + 1, out \o SubSeq(t, i, j))

\* re.sub: matches are looked for from left to right, each one is replaced and
\* the scan goes on after it; a replacement is not scanned again.
RECURSIVE Sub(_, _, _, _)
Sub(c, t, i, out) ==
    IF i > Len(t) THEN out
    ELSE LET j == MatchEnd(t, i)
         IN IF j = 0 THEN Sub(c, t, i + 1, Append(out, t[i]))
            ELSE Sub(c, t, j + 1,
                     out \o Replace(c, Join(SubSeq(t, i + 1, j - 1)), SubSeq(t, i, j)))

\* Context.format_template(template)
FormatTemplate(c, t) == Sub(c, t, 1, <<>>)

\* A Context with some keys exists; no call was made yet.
InitTemplate ==
    /\ ctx \in TemplateContexts
    /\ tpl = TemplateCallNew
    /\ merged = <<>>
    /\ retry = RetryNodeNew(3, "passed")
    /\ nodes = <<>>
    /\ edges = <<>>
    /\ reverse = <<>>
    /\ replaced = "none"
    /\ err = "none"
    /\ pc = "build"
    /\ levels = <<>>
    /\ failFast = FALSE
    /\ dryRun = FALSE
    /\ levelIdx = 0
    /\ pending = <<>>
    /\ running = {}
    /\ results = <<>>
    /\ invoked = <<>>
    /\ seen = <<>>
    /\ writes = <<>>

\* A caller invokes ctx.format_template(t); the context is only read.
FormatTemplateCall ==
    /\ tpl.pc = "idle"
    /\ \E t \in Templates :
          tpl' = [pc |-> "returned", template |-> t, result |-> FormatTemplate(ctx, t)]
    /\ UNCHANGED <<graphVars, err, pc, levels, failFast, dryRun, levelIdx, pending,
                   running, results, ctx, invoked, seen, retry, merged, writes>>

NextTemplate == FormatTemplateCall

SpecTemplate == InitTemplate /\ [][NextTemplate]_vars

\* ------------------------------------------------------------------- Node
\* metadata of a result in which the key "level" is absent
NoLevel == -1

\* What a node's own run(ctx) may do: return a NodeResult of any status, or
\* raise.  SuccessNode / FailNode of the tests, GateNode with a false
\* predicate, and a node whose run raises.
RunOutcomes ==
    { [raises |-> FALSE, status |-> "SUCCESS", outputs |-> ("out" :> "v"),
       error |-> "", level |-> NoLevel],
      [raises |-> FALSE, status |-> "FAILURE", outputs |-> ("out" :> "w"),
       error |-> "fail", level |-> NoLevel],
      [raises |-> FALSE, status |-> "SKIPPED", outputs |-> ("gate_open" :> "False"),
       error |-> "gate predicate returned False", level |-> NoLevel],
      [raises |-> TRUE, status |-> "SUCCESS", outputs |-> <<>>,
       error |-> "boom", level |-> NoLevel] }

\* mutant: a raised fault is turned into FAILURE but its message is dropped
Execute_DropsMessage(o) ==
    IF o.raises
    THEN [status |-> "FAILURE", outputs |-> <<>>, error |-> "",
          level |-> NoLevel, dry_run |-> FALSE]
    ELSE [status |-> o.status, outputs |-> o.outputs, error |-> o.error,
          level |-> o.level, dry_run |-> FALSE]

\* Node.execute: the result of run, or NodeResult(FAILURE, error=str(e)) when
\* run raised (duration_ms is a wall-clock measurement and is not modelled).
Execute(o) ==
    IF o.raises
    THEN [status |-> "FAILURE", outputs |-> <<>>, error |-> o.error,
          level |-> NoLevel, dry_run |-> FALSE]
    ELSE [status |-> o.status, outputs |-> o.outputs, error |-> o.error,
          level |-> o.level, dry_run |-> FALSE]

\* ----------------------------------------------------------------- Runner
\* Graph.predecessors: set(self._reverse.get(node_id, set()))
Predecessors(n) == IF n \in DOMAIN reverse THEN reverse[n] ELSE {}

\* mutant: upstream failures are never looked at
ShouldSkip_Never(n, res) == FALSE

\* mutant: any predecessor that did not succeed blocks the node
ShouldSkip_NotSuccess(n, res) ==
    \E p \in Predecessors(n) : p \in DOMAIN res /\ res[p].status # "SUCCESS"

\* Runner._should_skip: some direct predecessor has a recorded FAILURE
ShouldSkip(n, res) ==
    \E p \in Predecessors(n) : p \in DOMAIN res /\ res[p].status = "FAILURE"

\* the result recorded for a node skipped because of an upstream failure
UpstreamSkipped(idx) ==
    [status |-> "SKIPPED", outputs |-> <<>>, error |-> "upstream dependency failed",
     level |-> idx, dry_run |-> FALSE]

\* mutant: the dry-run placeholder carries no dry_run flag
DrySkipped_NoFlag(idx) ==
    [status |-> "SKIPPED", outputs |-> <<>>, error |-> "", level |-> idx,
     dry_run |-> FALSE]

\* the result recorded for every node of a level in a dry run
DrySkipped(idx) ==
    [status |-> "SKIPPED", outputs |-> <<>>, error |-> "", level |-> idx,
     dry_run |-> TRUE]

\* mutant: a node skipped for its failed predecessor is left out of the report
RECURSIVE ScheduleLevel_DropSkipped(_, _, _, _)
ScheduleLevel_DropSkipped(level, idx, res, tasks) ==
    IF level = <<>> THEN <<res, tasks>>
    ELSE LET n == Head(level)
         IN IF ShouldSkip(n, res)
            THEN ScheduleLevel_DropSkipped(Tail(level), idx, res, tasks)
            ELSE ScheduleLevel_DropSkipped(Tail(level), idx, res, Append(tasks, n))

\* for node_id in level: skip-or-schedule, in level order; <<results, tasks>>
RECURSIVE ScheduleLevel(_, _, _, _)
ScheduleLevel(level, idx, res, tasks) ==
    IF level = <<>> THEN <<res, tasks>>
    ELSE LET n == Head(level)
         IN IF ShouldSkip(n, res)
            THEN ScheduleLevel(Tail(level), idx, (n :> UpstreamSkipped(idx)) @@ res, tasks)
            ELSE ScheduleLevel(Tail(level), idx, res, Append(tasks, n))

\* for node_id in level: report.results[node_id] = SKIPPED(dry_run)
RECURSIVE DryRunLevel(_, _, _)
DryRunLevel(level, idx, res) ==
    IF level = <<>> THEN res
    ELSE DryRunLevel(Tail(level), idx, (Head(level) :> DrySkipped(idx)) @@ res)

\* mutant: gather returns at the first FAILURE, leaving the siblings behind
GatherComplete_FirstFailure ==
    /\ pending = <<>>
    /\ \/ running = {}
       \/ \E n \in DOMAIN results :
             results[n].status = "FAILURE" /\ results[n].level = levelIdx

\* mutant: gather is awaited on an empty task list too, and never returns then
GatherComplete_NeedsTask ==
    /\ pending = <<>> /\ running = {}
    /\ \E n \in DOMAIN invoked : invoked[n] > 0 /\ n \in DOMAIN results
                                  /\ results[n].level = levelIdx

\* mutant: the coordinator goes on once every task was dispatched
GatherComplete_AllStarted == pending = <<>>

\* await asyncio.gather(*tasks) returns: every task of the level has finished
GatherComplete == pending = <<>> /\ running = {}

\* mutant: the fail-fast test looks at the last node of the level only
LevelHasFailure_LastOnly(level, res) ==
    /\ level # <<>>
    /\ level[Len(level)] \in DOMAIN res
    /\ res[level[Len(level)]].status = "FAILURE"

\* mutant: the fail-fast test never sees a failure
LevelHasFailure_Never(level, res) == FALSE

\* any(report.results.get(nid, SUCCESS).status == FAILURE for nid in level)
LevelHasFailure(level, res) ==
    \E i \in 1..Len(level) :
        level[i] \in DOMAIN res /\ res[level[i]].status = "FAILURE"

\* mutant: the Runner's level index overwrites a level the run returned
SetDefaultLevel_Overwrite(r, idx) == [r EXCEPT !.level = idx]

\* result.metadata.setdefault("level", level_idx)
SetDefaultLevel(r, idx) == IF r.level = NoLevel THEN [r EXCEPT !.level = idx] ELSE r

\* mutant: only a FAILURE keeps the outputs out of the context
\* mutant: the outputs are merged unless the node was skipped
MergeIfSuccess_UnlessSkipped(c, n, r) ==
    IF r.status # "SKIPPED" THEN CtxMerge(c, n, r.outputs) ELSE c

MergeIfSuccess_UnlessFailure(c, n, r) ==
    IF r.status # "FAILURE" THEN CtxMerge(c, n, r.outputs) ELSE c

\* mutant: outputs are merged whatever the status
MergeIfSuccess_Always(c, n, r) == CtxMerge(c, n, r.outputs)

\* mutant: the merge is left out
MergeIfSuccess_Never(c, n, r) == c

\* if result.status == SUCCESS: ctx.merge(node_id, result.outputs)
MergeIfSuccess(c, n, r) == IF r.status = "SUCCESS" THEN CtxMerge(c, n, r.outputs) ELSE c

\* mutant: a skipped node makes the report unsuccessful
ReportSuccess_OnlySuccess(res) == \A n \in DOMAIN res : res[n].status = "SUCCESS"

\* RunReport.success: every recorded status is SUCCESS or SKIPPED
ReportSuccess(res) ==
    \A n \in DOMAIN res : res[n].status \in {"SUCCESS", "SKIPPED"}

\* Runner(fail_fast, dry_run).run(graph, ctx) up to the level loop:
\* report = RunReport(); levels = graph.levels (CycleError propagates).
RunStart(ff, dr, c0, rev) ==
    /\ pc = "build"
    /\ failFast' = ff
    /\ dryRun' = dr
    /\ ctx' = c0
    /\ results' = <<>>
    /\ levelIdx' = 0
    /\ invoked' = [n \in Registered |-> 0]
    /\ seen' = [n \in Registered |-> {}]
    /\ LET r == GraphLevels(rev)
       IN IF r.raised
          THEN /\ err' = "CycleError"
               /\ pc' = "raised"
               /\ levels' = <<>>
          ELSE /\ err' = "none"
               /\ pc' = "level"
               /\ levels' = r.value
    /\ replaced' = "none"
    /\ writes' = [n \in Registered |-> 0]
    /\ UNCHANGED <<nodes, edges, reverse, retry, merged, tpl, pending, running>>

\* writes after the coordinator's loop over a level: one assignment for every
\* position of the level whose id was recorded by the loop, not made a task
CountWrites(level, res, tasks) ==
    [n \in DOMAIN writes |->
        writes[n] + Cardinality({i \in 1..Len(level) :
                                    /\ level[i] = n
                                    /\ n \in DOMAIN res
                                    /\ \A j \in 1..Len(tasks) : tasks[j] # n})]

\* mutant: the dry-run test is missing, the level is scheduled as in a real run
LevelBegin_IgnoresDryRun ==
    /\ pc = "level"
    /\ IF levelIdx >= Len(levels)
       THEN /\ pc' = "done"
            /\ UNCHANGED <<levelIdx, results, pending, writes>>
       ELSE LET level == levels[levelIdx + 1]
                s == ScheduleLevel(level, levelIdx, results, <<>>)
            IN /\ results' = s[1]
               /\ writes' = CountWrites(level, s[1], s[2])
               /\ pending' = s[2]
               /\ pc' = "gather"
               /\ UNCHANGED levelIdx
    /\ UNCHANGED <<graphVars, retry, merged, tpl, err, levels, failFast, dryRun, running, ctx,
                   invoked, seen>>

\* One iteration of the level loop up to its await: the dry-run branch, or the
\* skip-or-schedule loop followed by gather; the loop's exit when no level is left.
LevelBegin ==
    /\ pc = "level"
    /\ IF levelIdx >= Len(levels)
       THEN /\ pc' = "done"
            /\ UNCHANGED <<levelIdx, results, pending, writes>>
       ELSE LET level == levels[levelIdx + 1]
            IN IF dryRun
               THEN /\ results' = DryRunLevel(level, levelIdx, results)
                    /\ writes' = CountWrites(level, results', <<>>)
                    /\ levelIdx' = levelIdx + 1
                    /\ pc' = "level"
                    /\ UNCHANGED pending
               ELSE LET s == ScheduleLevel(level, levelIdx, results, <<>>)
                    IN /\ results' = s[1]
                       /\ writes' = CountWrites(level, s[1], s[2])
                       /\ pending' = s[2]
                       /\ pc' = "gather"
                       /\ UNCHANGED levelIdx
    /\ UNCHANGED <<graphVars, retry, merged, tpl, err, levels, failFast, dryRun, running, ctx, invoked, seen>>

\* mutant: tasks run one after the other, a task starts when none is running
Start_Serial(n) ==
    /\ pc = "gather"
    /\ pending # <<>>
    /\ n = Head(pending)
    /\ running = {}
    /\ pending' = Tail(pending)
    /\ running' = running \cup {n}
    /\ invoked' = [invoked EXCEPT ![n] = @ + 1]
    /\ seen' = [seen EXCEPT ![n] = DOMAIN ctx]
    /\ UNCHANGED <<graphVars, retry, merged, tpl, writes, err, pc, levels, failFast, dryRun, levelIdx, results, ctx>>

\* mutant: a dispatched task stays in the queue and is dispatched again
Start_KeepPending(n) ==
    /\ pc = "gather"
    /\ pending # <<>>
    /\ n = Head(pending)
    /\ invoked[n] < 2
    /\ running' = running \cup {n}
    /\ invoked' = [invoked EXCEPT ![n] = @ + 1]
    /\ seen' = [seen EXCEPT ![n] = DOMAIN ctx]
    /\ UNCHANGED <<graphVars, retry, merged, tpl, writes, err, pc, levels, failFast, dryRun, levelIdx, results, ctx,
                   pending>>

\* The event loop runs the first step of the next task in creation order:
\* _run_node calls node.execute, whose run may read the context right away.
Start(n) ==
    /\ pc = "gather"
    /\ pending # <<>>
    /\ n = Head(pending)
    /\ pending' = Tail(pending)
    /\ running' = running \cup {n}
    /\ invoked' = [invoked EXCEPT ![n] = @ + 1]
    /\ seen' = [seen EXCEPT ![n] = DOMAIN ctx]
    /\ UNCHANGED <<graphVars, retry, merged, tpl, writes, err, pc, levels, failFast, dryRun, levelIdx, results, ctx>>

\* A running node resumes after an await inside its run and reads the context
\* again (ctx.get / ctx.format_template / ctx.snapshot).
Read(n) ==
    /\ pc = "gather"
    /\ n \in running
    /\ seen[n] # DOMAIN ctx
    /\ seen' = [seen EXCEPT ![n] = DOMAIN ctx]
    /\ UNCHANGED <<graphVars, retry, merged, tpl, writes, err, pc, levels, failFast, dryRun, levelIdx, pending,
                   running, results, ctx, invoked>>

\* node.execute returns and _run_node runs on without an await: level stamp,
\* merge on SUCCESS, report.results[node_id] = result.
Finish(n, o) ==
    /\ pc = "gather"
    /\ n \in running
    /\ LET r == SetDefaultLevel(Execute(o), levelIdx)
       IN /\ ctx' = MergeIfSuccess(ctx, n, r)
          /\ results' = (n :> r) @@ results
    /\ running' = running \ {n}
    /\ writes' = [writes EXCEPT ![n] = @ + 1]
    /\ UNCHANGED <<graphVars, retry, merged, tpl, err, pc, levels, failFast, dryRun, levelIdx, pending,
                   invoked, seen>>

\* gather returns (or there was no task to await): the fail-fast check, then
\* the next iteration of the level loop.
LevelEnd ==
    /\ pc = "gather"
    /\ GatherComplete
    /\ IF failFast /\ LevelHasFailure(levels[levelIdx + 1], results)
       THEN /\ pc' = "done"
            /\ UNCHANGED levelIdx
       ELSE /\ pc' = "level"
            /\ levelIdx' = levelIdx + 1
    /\ UNCHANGED <<graphVars, retry, merged, tpl, writes, err, levels, failFast, dryRun, pending, running,
                   results, ctx, invoked, seen>>

Next ==
    \/ Build(RunNodes, RunEdges)
    \/ \E ff, dr, rev \in BOOLEAN : \E c0 \in InitialContexts : RunStart(ff, dr, c0, rev)
    \/ LevelBegin
    \/ \E n \in Registered : Start(n)
    \/ \E n \in Registered : Read(n)
    \/ \E n \in Registered : \E o \in RunOutcomes : Finish(n, o)
    \/ LevelEnd

Spec == Init /\ [][Next]_vars

\* ---------------------------------- Runner.run over arbitrary ids and results
\* Graph accepts any string as node id and a node's run may return any outputs
\* and metadata: ids with and without dots, registered in this order, with
\* these edges.
FreeGraphs ==
    { [nodes |-> <<"a", "a.b">>, arcs |-> {}],
      [nodes |-> <<"a", "a.b">>, arcs |-> {<<"a", "a.b">>}],
      [nodes |-> <<"a", "a.b", "c">>, arcs |-> {<<"a", "c">>}] }

\* What a node's run may do here: plain and dotted output keys, metadata with
\* a "level" entry of its own, a FAILURE, a fault.
FreeOutcomes ==
    { [raises |-> FALSE, status |-> "SUCCESS", outputs |-> ("out" :> "1"),
       error |-> "", level |-> NoLevel],
      [raises |-> FALSE, status |-> "SUCCESS", outputs |-> ("b.out" :> "2"),
       error |-> "", level |-> NoLevel],
      [raises |-> FALSE, status |-> "SUCCESS", outputs |-> ("out" :> "3"),
       error |-> "", level |-> 7],
      [raises |-> FALSE, status |-> "FAILURE", outputs |-> <<>>,
       error |-> "fail", level |-> NoLevel],
      [raises |-> TRUE, status |-> "SUCCESS", outputs |-> <<>>,
       error |-> "boom", level |-> NoLevel] }

\* A graph of FreeGraphs was built with add_node / add_edge.
InitFree ==
    /\ \E g \in FreeGraphs :
          LET ids == {g.nodes[i] : i \in 1..Len(g.nodes)}
          IN /\ nodes = g.nodes
             /\ edges = [n \in ids |-> {t \in ids : <<n, t>> \in g.arcs}]
             /\ reverse = [n \in ids |-> {u \in ids : <<u, n>> \in g.arcs}]
    /\ replaced = "none"
    /\ retry = RetryNodeNew(3, "passed")
    /\ merged = <<>>
    /\ tpl = TemplateCallNew
    /\ err = "none"
    /\ pc = "build"
    /\ levels = <<>>
    /\ failFast = FALSE
    /\ dryRun = FALSE
    /\ levelIdx = 0
    /\ pending = <<>>
    /\ running = {}
    /\ results = <<>>
    /\ ctx = <<>>
    /\ invoked = <<>>
    /\ seen = <<>>
    /\ writes = <<>>

NextFree ==
    \/ \E ff, dr, rev \in BOOLEAN : \E c0 \in InitialContexts : RunStart(ff, dr, c0, rev)
    \/ LevelBegin
    \/ \E n \in Registered : Start(n)
    \/ \E n \in Registered : Read(n)
    \/ \E n \in Registered : \E o \in FreeOutcomes : Finish(n, o)
    \/ LevelEnd

SpecFree == InitFree /\ [][NextFree]_vars

\* The event loop runs every ready callback (the coordinator's own steps and
\* the first step of each gathered task), and every node's run terminates,
\* normally or with a fault.
RunFairness ==
    /\ WF_vars(LevelBegin)
    /\ WF_vars(LevelEnd)
    /\ \A n \in IdsUpTo(RunNodes) : WF_vars(Start(n))
    /\ \A n \in IdsUpTo(RunNodes) : WF_vars(\E o \in RunOutcomes : Finish(n, o))

SpecFair == Init /\ [][Next]_vars /\ RunFairness

\* -------------------------------------------------------------- RetryNode
\* Largest max_retries a RetryNode is constructed with.
MaxRetries == 3

\* node_id of the RetryNode
RetryId == "r"

\* pass_key values: the default "passed" and a custom one
PassKeys == {"passed", "ok"}

\* Python values are written as their repr; truth value of a Python value
Truthy(v) == v \notin {"False", "None", "0", "''"}

\* dict.get(k, default)
DictGet(d, k, default) == IF k \in DOMAIN d THEN d[k] ELSE default

\* {**base, **over}: the entries of over win
DictUpdate(base, over) ==
    [k \in DOMAIN base \cup DOMAIN over |-> IF k \in DOMAIN over THEN over[k] ELSE base[k]]

\* What the verify node's run may do: ShellNode passing / failing, a node
\* that reports no pass key, one that raises, one that fails while reporting
\* a custom "ok" key next to "passed" and "attempts" keys of its own, and one
\* whose "passed" value is a non-empty string.
VerifyOutcomes ==
    { [raises |-> FALSE, status |-> "SUCCESS", outputs |-> ("passed" :> "True"),
       error |-> "", level |-> NoLevel],
      [raises |-> FALSE, status |-> "FAILURE", outputs |-> ("passed" :> "False"),
       error |-> "Command exited with code 1", level |-> NoLevel],
      [raises |-> FALSE, status |-> "SUCCESS", outputs |-> <<>>,
       error |-> "", level |-> NoLevel],
      [raises |-> TRUE, status |-> "SUCCESS", outputs |-> <<>>,
       error |-> "boom", level |-> NoLevel],
      [raises |-> FALSE, status |-> "FAILURE",
       outputs |-> ("ok" :> "True") @@ ("passed" :> "False") @@ ("attempts" :> "99"),
       error |-> "lint", level |-> NoLevel],
      [raises |-> FALSE, status |-> "SUCCESS", outputs |-> ("passed" :> "'yes'"),
       error |-> "", level |-> NoLevel] }

\* What the fix node's run may do: succeed, fail with or without outputs, raise.
FixOutcomes ==
    { [raises |-> FALSE, status |-> "SUCCESS", outputs |-> ("patched" :> "True"),
       error |-> "", level |-> NoLevel],
      [raises |-> FALSE, status |-> "FAILURE", outputs |-> ("patched" :> "False"),
       error |-> "Command exited with code 2", level |-> NoLevel],
      [raises |-> FALSE, status |-> "FAILURE", outputs |-> <<>>,
       error |-> "fix failed", level |-> NoLevel],
      [raises |-> TRUE, status |-> "SUCCESS", outputs |-> <<>>,
       error |-> "fixboom", level |-> NoLevel] }

\* mutant: the pass flag is always read under "passed", pass_key is ignored
PassedValue_DefaultKey(outputs, passKey) == DictGet(outputs, "passed", "False")

\* passed = last_verify.outputs.get(self.pass_key, False)
PassedValue(outputs, passKey) == DictGet(outputs, passKey, "False")

\* mutant: a fix is run after every failed verify, the last one included
FixAllowed_Always(attempt, maxRetries) == attempt <= maxRetries

\* if attempt < self.max_retries: run the fix node
FixAllowed(attempt, maxRetries) == attempt < maxRetries

\* NodeResult(SUCCESS, outputs={"passed": True, "attempts": len(attempts),
\* **last_verify.outputs}); metadata["attempts"] is the attempts log itself
RetrySuccess(log, verify) ==
    [status |-> "SUCCESS",
     outputs |-> DictUpdate(("passed" :> "True") @@ ("attempts" :> ToString(Len(log))),
                            verify.outputs),
     error |-> "", level |-> NoLevel, dry_run |-> FALSE]

\* NodeResult(FAILURE, outputs={"passed": False, "attempts": len(attempts)},
\* error="Verification failed after N attempts[: <last verify error>]")
RetryExhausted(log, verify) ==
    [status |-> "FAILURE",
     outputs |-> ("passed" :> "False") @@ ("attempts" :> ToString(Len(log))),
     error |-> "Verification failed after " \o ToString(Len(log)) \o " attempts"
               \o (IF verify # NoResult /\ verify.error # ""
                   THEN ": " \o verify.error ELSE ""),
     level |-> NoLevel, dry_run |-> FALSE]

\* A RetryNode was constructed and Context handed to its run().
InitRetry ==
    /\ \E mr \in (-1)..MaxRetries : \E pk \in PassKeys : retry = RetryNodeNew(mr, pk)
    /\ ctx \in InitialContexts
    /\ merged = <<>>
    /\ tpl = TemplateCallNew
    /\ nodes = <<>>
    /\ edges = <<>>
    /\ reverse = <<>>
    /\ replaced = "none"
    /\ err = "none"
    /\ pc = "build"
    /\ levels = <<>>
    /\ failFast = FALSE
    /\ dryRun = FALSE
    /\ levelIdx = 0
    /\ pending = <<>>
    /\ running = {}
    /\ results = <<>>
    /\ invoked = <<>>
    /\ seen = <<>>
    /\ writes = <<>>

retryFrame == <<graphVars, err, pc, levels, failFast, dryRun, levelIdx, pending,
                running, results, invoked, seen, merged, tpl, writes>>

\* mutant: the loop body runs once before max_retries is looked at
RetryStart_AtLeastOnce ==
    /\ retry.pc = "idle"
    /\ retry' = [retry EXCEPT !.pc = "verify", !.attempt = 1]
    /\ UNCHANGED <<retryFrame, ctx>>

\* RetryNode.run up to its first await: the loop is entered with attempt = 1,
\* or range(1, max_retries + 1) is empty and the exhausted result is returned.
RetryStart ==
    /\ retry.pc = "idle"
    /\ retry' = IF 1 <= retry.maxRetries
                THEN [retry EXCEPT !.pc = "verify", !.attempt = 1]
                ELSE [retry EXCEPT !.pc = "returned",
                                   !.result = RetryExhausted(<<>>, NoResult)]
    /\ UNCHANGED <<retryFrame, ctx>>

\* mutant: the outputs of a verify that did not end in SUCCESS are not merged
RetryVerify_MergeOnSuccess(o) ==
    /\ retry.pc = "verify"
    /\ LET v == Execute(o)
           passed == PassedValue(v.outputs, retry.passKey)
           log == Append(retry.attempts,
                         [attempt |-> retry.attempt, passed |-> passed, error |-> v.error])
           tr == Append(retry.trace, [node |-> "verify", result |-> v])
       IN /\ ctx' = IF v.status = "SUCCESS"
                    THEN CtxMerge(ctx, Key(RetryId, "verify"), v.outputs) ELSE ctx
          /\ retry' =
               IF Truthy(passed)
               THEN [retry EXCEPT !.pc = "returned", !.attempts = log, !.lastVerify = v,
                                  !.trace = tr, !.result = RetrySuccess(log, v)]
               ELSE IF FixAllowed(retry.attempt, retry.maxRetries)
               THEN [retry EXCEPT !.pc = "fix", !.attempts = log, !.lastVerify = v,
                                  !.trace = tr]
               ELSE [retry EXCEPT !.pc = "returned", !.attempts = log, !.lastVerify = v,
                                  !.trace = tr, !.result = RetryExhausted(log, v)]
    /\ UNCHANGED retryFrame

\* mutant: an attempt passes only when the verify result is SUCCESS as well
RetryVerify_NeedsSuccess(o) ==
    /\ retry.pc = "verify"
    /\ LET v == Execute(o)
           passed == PassedValue(v.outputs, retry.passKey)
           log == Append(retry.attempts,
                         [attempt |-> retry.attempt, passed |-> passed, error |-> v.error])
           tr == Append(retry.trace, [node |-> "verify", result |-> v])
       IN /\ ctx' = CtxMerge(ctx, Key(RetryId, "verify"), v.outputs)
          /\ retry' =
               IF Truthy(passed) /\ v.status = "SUCCESS"
               THEN [retry EXCEPT !.pc = "returned", !.attempts = log, !.lastVerify = v,
                                  !.trace = tr, !.result = RetrySuccess(log, v)]
               ELSE IF FixAllowed(retry.attempt, retry.maxRetries)
               THEN [retry EXCEPT !.pc = "fix", !.attempts = log, !.lastVerify = v,
                                  !.trace = tr]
               ELSE [retry EXCEPT !.pc = "returned", !.attempts = log, !.lastVerify = v,
                                  !.trace = tr, !.result = RetryExhausted(log, v)]
    /\ UNCHANGED retryFrame

\* verify_node.execute returns: merge under "{node_id}.verify", read the pass
\* flag, log the attempt; return SUCCESS when it passed, go on to the fix when
\* attempts remain, else leave the loop and return the exhausted result.
RetryVerify(o) ==
    /\ retry.pc = "verify"
    /\ LET v == Execute(o)
           passed == PassedValue(v.outputs, retry.passKey)
           log == Append(retry.attempts,
                         [attempt |-> retry.attempt, passed |-> passed, error |-> v.error])
           tr == Append(retry.trace, [node |-> "verify", result |-> v])
       IN /\ ctx' = CtxMerge(ctx, Key(RetryId, "verify"), v.outputs)
          /\ retry' =
               IF Truthy(passed)
               THEN [retry EXCEPT !.pc = "returned", !.attempts = log, !.lastVerify = v,
                                  !.trace = tr, !.result = RetrySuccess(log, v)]
               ELSE IF FixAllowed(retry.attempt, retry.maxRetries)
               THEN [retry EXCEPT !.pc = "fix", !.attempts = log, !.lastVerify = v,
                                  !.trace = tr]
               ELSE IF retry.attempt < retry.maxRetries
               THEN [retry EXCEPT !.pc = "verify", !.attempt = @ + 1, !.attempts = log,
                                  !.lastVerify = v, !.trace = tr]
               ELSE [retry EXCEPT !.pc = "returned", !.attempts = log, !.lastVerify = v,
                                  !.trace = tr, !.result = RetryExhausted(log, v)]
    /\ UNCHANGED retryFrame

\* mutant: a fix that ends in FAILURE aborts the loop with the exhausted result
RetryFix_AbortsOnFailure(o) ==
    /\ retry.pc = "fix"
    /\ LET f == Execute(o)
           tr == Append(retry.trace, [node |-> "fix", result |-> f])
       IN /\ ctx' = CtxMerge(ctx, Key(RetryId, "fix"), f.outputs)
          /\ retry' =
               IF f.status # "FAILURE"
               THEN [retry EXCEPT !.pc = "verify", !.attempt = @ + 1, !.trace = tr]
               ELSE [retry EXCEPT !.pc = "returned", !.trace = tr,
                        !.result = RetryExhausted(retry.attempts, retry.lastVerify)]
    /\ UNCHANGED retryFrame

\* fix_node.execute returns: merge under "{node_id}.fix" (a FAILURE is only
\* logged), then the next iteration of the loop, or its end.
RetryFix(o) ==
    /\ retry.pc = "fix"
    /\ LET f == Execute(o)
           tr == Append(retry.trace, [node |-> "fix", result |-> f])
       IN /\ ctx' = CtxMerge(ctx, Key(RetryId, "fix"), f.outputs)
          /\ retry' =
               IF retry.attempt < retry.maxRetries
               THEN [retry EXCEPT !.pc = "verify", !.attempt = @ + 1, !.trace = tr]
               ELSE [retry EXCEPT !.pc = "returned", !.trace = tr,
                        !.result = RetryExhausted(retry.attempts, retry.lastVerify)]
    /\ UNCHANGED retryFrame

NextRetry ==
    \/ RetryStart
    \/ \E o \in VerifyOutcomes : RetryVerify(o)
    \/ \E o \in FixOutcomes : RetryFix(o)

SpecRetry == InitRetry /\ [][NextRetry]_vars

\* ------------------------------------------- a RetryNode run by the Runner
\* Graphs that hold the RetryNode "r": beside an independent chain b -> c (c is
\* in the level after r and does not depend on it), or in front of c.
RetryGraphs ==
    { [nodes |-> <<"b", "r", "c">>, arcs |-> {<<"b", "c">>}],
      [nodes |-> <<"r", "c">>, arcs |-> {<<"r", "c">>}] }

\* The NodeResult RetryNode.run returned, as the outcome of the node's run that
\* Node.execute wraps.
RetryOutcome ==
    [raises |-> FALSE, status |-> retry.result.status, outputs |-> retry.result.outputs,
     error |-> retry.result.error, level |-> retry.result.level]

InitRunRetry ==
    /\ \E g \in RetryGraphs :
          LET ids == {g.nodes[i] : i \in 1..Len(g.nodes)}
          IN /\ nodes = g.nodes
             /\ edges = [n \in ids |-> {t \in ids : <<n, t>> \in g.arcs}]
             /\ reverse = [n \in ids |-> {u \in ids : <<u, n>> \in g.arcs}]
    /\ replaced = "none"
    /\ \E mr \in 0..RunRetries : \E pk \in PassKeys : retry = RetryNodeNew(mr, pk)
    /\ merged = <<>>
    /\ tpl = TemplateCallNew
    /\ err = "none"
    /\ pc = "build"
    /\ levels = <<>>
    /\ failFast = FALSE
    /\ dryRun = FALSE
    /\ levelIdx = 0
    /\ pending = <<>>
    /\ running = {}
    /\ results = <<>>
    /\ ctx = <<>>
    /\ invoked = <<>>
    /\ seen = <<>>
    /\ writes = <<>>

\* The task of "r" is RetryNode.run inside Node.execute: its steps are taken
\* while the task is running, between the steps of the level's other tasks, and
\* _run_node goes on with the NodeResult the run returned.  The run is handed
\* the seeded context.
NextRunRetry ==
    \/ \E ff, dr, rev \in BOOLEAN : RunStart(ff, dr, ("seed" :> "s"), rev)
    \/ LevelBegin
    \/ \E n \in Registered : Start(n)
    \/ \E n \in Registered : Read(n)
    \/ (RetryId \in running /\ RetryStart)
    \/ (RetryId \in running /\ \E o \in VerifyOutcomes : RetryVerify(o))
    \/ (RetryId \in running /\ \E o \in FixOutcomes : RetryFix(o))
    \/ (RetryId \in running /\ retry.pc = "returned" /\ Finish(RetryId, RetryOutcome))
    \/ \E n \in Registered \ {RetryId} : \E o \in RunOutcomes : Finish(n, o)
    \/ LevelEnd

SpecRunRetry == InitRunRetry /\ [][NextRunRetry]_vars

\* ------------------------------------------------- vocabulary of the claims
\* Direct predecessors and successors read from the forward adjacency map.
Succs(u) == edges[u]
Preds(v) == {u \in Registered : v \in edges[u]}

\* Nodes reachable from the set S along one or more edges.
RECURSIVE ReachFrom(_, _)
ReachFrom(S, acc) ==
    LET nxt == (UNION {edges[x] : x \in S}) \ acc
    IN IF nxt = {} THEN acc ELSE ReachFrom(nxt, acc \cup nxt)

Descendants(u) == ReachFrom({u}, {})
Ancestors(v) == {u \in Registered : v \in Descendants(u)}

\* The registered edges contain a directed cycle (a self-edge included).
HasCycle == \E u \in Registered : u \in Descendants(u)

\* Positions <<group, slot>> at which id n occurs in the returned levels.
Positions(n) ==
    {p \in (1..Len(levels)) \X (1..Len(nodes)) :
        p[2] <= Len(levels[p[1]]) /\ levels[p[1]][p[2]] = n}

\* 0-based index of the first group holding n (n occurs in the levels).
GroupIndex(n) ==
    (CHOOSE i \in 1..Len(levels) :
        /\ \E j \in 1..Len(levels[i]) : levels[i][j] = n
        /\ \A h \in 1..(i - 1) : \A j \in 1..Len(levels[h]) : levels[h][j] # n) - 1

MaxOf(S) == CHOOSE x \in S : \A y \in S : y <= x

LevelsReturned == pc = "queried" /\ err = "none"

\* ---------------------------------------------------------------- claims
\* C1: for every acyclic graph built by add_node/add_edge, levels returns
\* groups in which every registered id occurs exactly once (and nothing else
\* occurs), and every edge u->v has group_index(u) < group_index(v).
C1_LevelsPartitionAndOrder ==
    (pc = "queried" /\ ~HasCycle) =>
        /\ err = "none"
        /\ \A n \in Registered : Cardinality(Positions(n)) = 1
        /\ \A i \in 1..Len(levels) : \A j \in 1..Len(levels[i]) :
              levels[i][j] \in Registered
        /\ \A u \in Registered : \A v \in Succs(u) : GroupIndex(u) < GroupIndex(v)

\* C1 witness: the diamond a->b, a->c, b->d, c->d leveled into three groups.
C1_Witness ==
    /\ LevelsReturned
    /\ Len(nodes) = 4 /\ EdgeCount = 4
    /\ Len(levels) = 3
    /\ Len(levels[2]) = 2
    /\ \E n \in Registered : Cardinality(Preds(n)) = 2

\* C2: in an acyclic graph a node without predecessors is in group 0, every
\* other node is in group 1 + max(group of its direct predecessors), and no
\* group is empty.
C2_LevelsEarliest ==
    (pc = "queried" /\ ~HasCycle) =>
        /\ \A n \in Registered : Positions(n) # {}
        /\ \A n \in Registered :
              GroupIndex(n) =
                 IF Preds(n) = {} THEN 0
                 ELSE 1 + MaxOf({GroupIndex(p) : p \in Preds(n)})
        /\ \A i \in 1..Len(levels) : Len(levels[i]) > 0

\* C2 witness: a node whose direct predecessors lie in different groups, next
\* to a predecessor-free node that was registered after it.
C2_Witness ==
    /\ LevelsReturned
    /\ \E n \in Registered : \E p, q \in Preds(n) : GroupIndex(p) < GroupIndex(q)
    /\ \E i \in 2..Len(nodes) : Preds(nodes[i]) = {}

\* C3: levels raises CycleError if and only if the registered edges contain a
\* directed cycle (a self-edge included), and returns no leveling when it raises.
C3_CycleDetectionExact ==
    pc = "queried" =>
        /\ (err = "CycleError") <=> HasCycle
        /\ HasCycle => levels = <<>>
        /\ err \in {"none", "CycleError"}

\* C3 witness: CycleError raised for a graph in which some nodes lie outside
\* every cycle and were emitted before the check.
C3_Witness ==
    /\ pc = "queried" /\ err = "CycleError"
    /\ \E n \in Registered : Preds(n) = {} /\ Succs(n) # {}
    /\ \E n \in Registered : n \in Succs(n)

\* ----------------------------------------------- claims about Runner.run
InRun == pc \in {"level", "gather", "done"}

Recorded(n) == n \in DOMAIN results

Failed(n) == Recorded(n) /\ results[n].status = "FAILURE"

UpstreamSkip(n) ==
    /\ Recorded(n)
    /\ results[n].status = "SKIPPED"
    /\ results[n].error = "upstream dependency failed"

\* Context keys the Runner writes for node m when it merges m's recorded outputs.
MergedKeys(m) == {Key(m, k) : k \in DOMAIN results[m].outputs}

SeedKeys == UNION {DOMAIN c : c \in InitialContexts}

\* C4: a level is a barrier: whenever a node has been started, every node of
\* an earlier level that was invoked has finished executing and has its result
\* recorded, whether or not an edge connects the two.
C4_LevelBarrier ==
    InRun =>
        \A n \in Registered : invoked[n] > 0 =>
            \A m \in Registered :
                (GroupIndex(m) < GroupIndex(n) /\ invoked[m] > 0) =>
                    (m \notin running /\ Recorded(m))

\* C4 witness: a node of level 1 is executing after a finished node of level 0
\* that is none of its ancestors.
C4_Witness ==
    /\ pc = "gather"
    /\ \E n \in running : \E m \in Registered :
          /\ GroupIndex(m) < GroupIndex(n)
          /\ m \notin Ancestors(n)
          /\ invoked[m] = 1 /\ Recorded(m)

\* C5: in one run no node's execute is invoked more than once, in any mode;
\* when a run with dryRun = false and failFast = false returns, every node was
\* either invoked exactly once and has the result of that execution, or was
\* never invoked and is recorded as skipped for a failed direct predecessor.
C5_AtMostOnce ==
    InRun =>
        /\ \A n \in Registered : invoked[n] <= 1
        /\ (pc = "done" /\ ~dryRun /\ ~failFast) =>
              \A n \in Registered :
                  \/ invoked[n] = 1 /\ Recorded(n) /\ ~UpstreamSkip(n)
                  \/ /\ invoked[n] = 0 /\ UpstreamSkip(n)
                     /\ \E p \in Preds(n) : Failed(p)

\* C5 witness: a finished run in which one node was executed and another one
\* was skipped for its failed predecessor.
C5_Witness ==
    /\ pc = "done" /\ ~dryRun /\ ~failFast
    /\ \E n, m \in Registered :
          invoked[n] = 1 /\ Recorded(n) /\ invoked[m] = 0 /\ UpstreamSkip(m)

\* C6 as claimed: in every non-dry run a node with a failed direct predecessor
\* is never invoked and ends recorded as SKIPPED "upstream dependency failed",
\* and the report is unsuccessful.
C6_Original ==
    (InRun /\ ~dryRun) =>
        \A n \in Registered : (\E p \in Preds(n) : Failed(p)) =>
            /\ invoked[n] = 0
            /\ pc = "done" => (UpstreamSkip(n) /\ ~ReportSuccess(results))

\* C6 amended: in a non-dry run a node with a failed direct predecessor is never
\* invoked; if it is recorded at all its result is SKIPPED with error "upstream
\* dependency failed" and its level; it is recorded when the run returns with
\* failFast = false (with failFast = true the run stops after the failing level
\* and the node is absent from the report); the report is unsuccessful.
C6_UpstreamSkipState ==
    (InRun /\ ~dryRun) =>
        \A n \in Registered : (\E p \in Preds(n) : Failed(p)) =>
            /\ invoked[n] = 0
            /\ Recorded(n) => results[n] = UpstreamSkipped(GroupIndex(n))
            /\ (pc = "done" /\ ~failFast) => Recorded(n)
            /\ (pc = "done" /\ failFast) => ~Recorded(n)
            /\ ~ReportSuccess(results)

\* ... and a recorded FAILURE stays FAILURE for the rest of the run.
C6_FailureStays ==
    \A p \in Registered :
        (InRun /\ Failed(p)) => (p \in DOMAIN results' /\ results'[p] = results[p])

C6_UpstreamSkip == [](C6_UpstreamSkipState) /\ [][C6_FailureStays]_vars

\* C6 witness: a returned run without fail-fast in which a node failed and its
\* direct successor is recorded as skipped.
C6_Witness ==
    /\ pc = "done" /\ ~dryRun /\ ~failFast
    /\ \E n \in Registered : \E p \in Preds(n) : Failed(p) /\ UpstreamSkip(n)

\* C7: when a node ends in FAILURE, no node reachable from it along edges (any
\* transitive successor) is invoked in that run.
C7_FailurePropagatesTransitively ==
    InRun =>
        \A n \in Registered : (\E a \in Ancestors(n) : Failed(a)) => invoked[n] = 0

\* C8: when a run with dryRun = false and failFast = false returns, every node
\* none of whose ancestors ended in FAILURE was invoked and has its own result
\* recorded, whatever the other nodes did.
C8_UnrelatedBranchesRun ==
    (pc = "done" /\ ~dryRun /\ ~failFast) =>
        \A n \in Registered : (\A a \in Ancestors(n) : ~Failed(a)) =>
            /\ invoked[n] = 1
            /\ Recorded(n) /\ ~UpstreamSkip(n) /\ ~results[n].dry_run

\* C8 witness: a node failed, its successor was skipped, and a node outside
\* that branch which has a predecessor of its own ran to SUCCESS.
C8_Witness ==
    /\ pc = "done" /\ ~dryRun /\ ~failFast
    /\ \E f, n \in Registered :
          /\ Failed(f) /\ Succs(f) # {}
          /\ f \notin Ancestors(n)
          /\ invoked[n] = 1 /\ Recorded(n) /\ results[n].status = "SUCCESS"

LevelIds(i) == {levels[i + 1][j] : j \in 1..Len(levels[i + 1])}

\* C11: the Runner never merges the outputs of a node whose result is FAILURE
\* or SKIPPED (a gate returning gate_open = false included): none of its
\* "{node_id}.k" keys is in the context, while its result is in the report.
C11_NoMergeUnlessSuccess ==
    InRun =>
        /\ \A n \in Registered :
              (Recorded(n) /\ results[n].status \in {"FAILURE", "SKIPPED"}) =>
                  \A k \in DOMAIN results[n].outputs : Key(n, k) \notin DOMAIN ctx
        /\ \A n \in Registered : (invoked[n] = 1 /\ n \notin running) => Recorded(n)

\* C11 witness: a returned run that recorded a FAILURE with outputs and a
\* closed gate with its gate_open output.
C11_Witness ==
    /\ pc = "done"
    /\ \E n, m \in Registered :
          /\ Failed(n) /\ DOMAIN results[n].outputs = {"out"}
          /\ Recorded(m) /\ results[m].status = "SKIPPED"
          /\ DOMAIN results[m].outputs = {"gate_open"}

\* C12: with dryRun = true no node is ever invoked and every node of every
\* level is recorded as SKIPPED with dry_run = true and its level index.
C12_DryRun ==
    (InRun /\ dryRun) =>
        /\ running = {} /\ pending = <<>>
        /\ \A n \in Registered : invoked[n] = 0
        /\ \A n \in Registered : Recorded(n) =>
              /\ results[n].status = "SKIPPED"
              /\ results[n].dry_run
              /\ results[n].level = GroupIndex(n)
        /\ pc = "done" => DOMAIN results = Registered

\* C12 witness: a returned dry run of three nodes in two or more levels.
C12_Witness ==
    /\ pc = "done" /\ dryRun
    /\ Len(nodes) = 3 /\ Len(levels) >= 2
    /\ \A n \in Registered : Recorded(n) /\ results[n].dry_run

\* C13: with failFast = true, once a node of a level has failed no node of a
\* later level is invoked or recorded, and the returned report holds exactly
\* the nodes of the levels up to and including the failing one.
C13_FailFastStops ==
    (InRun /\ failFast) =>
        \A f \in Registered : Failed(f) =>
            /\ \A n \in Registered : GroupIndex(n) > GroupIndex(f) =>
                  (invoked[n] = 0 /\ ~Recorded(n))
            /\ pc = "done" =>
                  DOMAIN results = {n \in Registered : GroupIndex(n) <= GroupIndex(f)}

\* C13 witness: a returned fail-fast run whose first level failed while a
\* later level exists, and whose failing level also holds a successful node.
C13_Witness ==
    /\ pc = "done" /\ failFast
    /\ \E f, n, m \in Registered :
          /\ Failed(f) /\ GroupIndex(f) = 0
          /\ GroupIndex(n) = 0 /\ Recorded(n) /\ results[n].status = "SUCCESS"
          /\ GroupIndex(m) = 1 /\ ~Recorded(m)

\* C14: there is no cancellation inside a level: a node that was dispatched
\* stays in execution until its own result is recorded, also after a sibling
\* has failed and with failFast either way; the level loop only moves on, and
\* run only returns, when every invoked node has its own result recorded, and
\* merged when it is SUCCESS.
C14_NoCancellation ==
    InRun =>
        /\ \A n \in Registered : (invoked[n] > 0 /\ ~Recorded(n)) =>
              (pc = "gather" /\ n \in running)
        /\ pc \in {"level", "done"} =>
              /\ running = {} /\ pending = <<>>
              /\ \A n \in Registered : invoked[n] > 0 =>
                    /\ Recorded(n) /\ ~UpstreamSkip(n)
                    /\ results[n].status = "SUCCESS" =>
                          MergedKeys(n) \subseteq DOMAIN ctx

\* C14 witness: with failFast = true a node has failed while a sibling of its
\* level is still executing.
C14_Witness ==
    /\ pc = "gather" /\ failFast
    /\ \E f \in Registered : \E n \in running :
          Failed(f) /\ GroupIndex(f) = GroupIndex(n)

\* C15: nodes of one level run concurrently: while the coordinator waits, every
\* node of the level that was not skipped is dispatched (queued, executing or
\* finished), and the next queued node can start whatever siblings are still
\* executing.
C15_ConcurrentDispatch ==
    pc = "gather" =>
        /\ \A n \in LevelIds(levelIdx) :
              \/ UpstreamSkip(n)
              \/ \E i \in 1..Len(pending) : pending[i] = n
              \/ n \in running
              \/ Recorded(n)
        /\ pending # <<>> => ENABLED Start(Head(pending))

\* C15 witness: three nodes of one level are all executing at once.
C15_Witness ==
    /\ pc = "gather"
    /\ pending = <<>>
    /\ Cardinality(running) = 3
    /\ running = LevelIds(levelIdx)

\* C16: Node.execute turns every fault raised by run into a recorded result
\* with status FAILURE and the fault's message as error, and the Runner's
\* loop goes on: no exception reaches Runner.run.
C16_FaultStep ==
    \A n \in Registered : \A o \in RunOutcomes :
        (o.raises /\ Finish(n, o)) =>
            /\ n \in DOMAIN results'
            /\ results'[n].status = "FAILURE"
            /\ results'[n].error = o.error
            /\ results'[n].outputs = <<>>
            /\ pc' = "gather" /\ err' = "none"
            /\ ctx' = ctx

C16_ExecuteAbsorbsFaults == [][C16_FaultStep]_vars

\* C16 witness: a run returned a report in which one node's fault is recorded
\* and a node of a later level was executed after it.
C16_Witness ==
    /\ pc = "done" /\ err = "none"
    /\ \E n, m \in Registered :
          /\ Failed(n) /\ results[n].error = "boom"
          /\ GroupIndex(m) > GroupIndex(n) /\ invoked[m] = 1

\* C17: RunReport.success is true exactly when no recorded result is FAILURE
\* (SKIPPED does not count), in every mode; the empty report is successful.
C17_SuccessIffNoFailure ==
    InRun =>
        /\ ReportSuccess(results) <=> ~(\E n \in DOMAIN results : results[n].status = "FAILURE")
        /\ results = <<>> => ReportSuccess(results)

\* C17 witness: a returned fail-fast report that is successful although it
\* holds a SKIPPED result next to a SUCCESS.
C17_Witness ==
    /\ pc = "done" /\ failFast /\ ~dryRun
    /\ ReportSuccess(results)
    /\ \E n, m \in DOMAIN results :
          results[n].status = "SKIPPED" /\ results[m].status = "SUCCESS"

\* C18: for every acyclic graph, when every node's run terminates, a started
\* Runner.run eventually returns its report, whatever nodes fail and whatever
\* failFast and dryRun are.
C18_RunTerminates == (pc \in {"level", "gather"}) ~> (pc = "done")

\* C18 witness: a returned run over two or more levels that saw a failure, an
\* upstream skip and a success.
C18_Witness ==
    /\ pc = "done" /\ Len(levels) >= 2
    /\ \E f, k, n \in Registered :
          Failed(f) /\ UpstreamSkip(k) /\ Recorded(n) /\ results[n].status = "SUCCESS"

\* ---------------------------------------------- claims about RetryNode.run
\* positions of the trace at which verify / fix was executed
VerifyAt == {i \in 1..Len(retry.trace) : retry.trace[i].node = "verify"}
FixAt == {i \in 1..Len(retry.trace) : retry.trace[i].node = "fix"}

\* the verify executed at trace position i returned a truthy pass key
PassedAt(i) ==
    /\ retry.passKey \in DOMAIN retry.trace[i].result.outputs
    /\ retry.trace[i].result.outputs[retry.passKey] \notin {"False", "None", "0", "''"}

\* verify and fix strictly alternate, starting with verify
Alternates ==
    \A i \in 1..Len(retry.trace) :
        retry.trace[i].node = IF i % 2 = 1 THEN "verify" ELSE "fix"

\* C19: when no verify yields a truthy pass key, a RetryNode with
\* maxRetries = N >= 1 executes verify, fix, ..., verify in strict alternation,
\* N verifies and N - 1 fixes with no fix after the last verify, and returns
\* FAILURE with outputs passed = False, attempts = N and a log of N entries
\* numbered 1..N.
C19_RetryExhaustion ==
    (retry.maxRetries >= 1 /\ \A i \in VerifyAt : ~PassedAt(i)) =>
        /\ Alternates
        /\ Cardinality(VerifyAt) <= retry.maxRetries
        /\ Cardinality(FixAt) <= retry.maxRetries - 1
        /\ retry.pc = "returned" =>
              /\ Cardinality(VerifyAt) = retry.maxRetries
              /\ Cardinality(FixAt) = retry.maxRetries - 1
              /\ retry.trace[Len(retry.trace)].node = "verify"
              /\ retry.result.status = "FAILURE"
              /\ retry.result.outputs =
                    ("passed" :> "False") @@ ("attempts" :> ToString(retry.maxRetries))
              /\ Len(retry.attempts) = retry.maxRetries
              /\ \A i \in 1..Len(retry.attempts) : retry.attempts[i].attempt = i

\* C19 witness: maxRetries = 3 exhausted after verify, fix, verify, fix, verify.
C19_Witness ==
    /\ retry.pc = "returned" /\ retry.maxRetries = 3
    /\ Len(retry.trace) = 5
    /\ \A i \in VerifyAt : ~PassedAt(i)
    /\ retry.result.status = "FAILURE"

\* what every run that saw a truthy pass key has in common: the passing verify
\* is the last sub-node executed and the only one that passed, run() returned
\* SUCCESS right after it, verify ran k times and fix k - 1 times.
RetryStopsAtFirstPass ==
    \A k \in VerifyAt : PassedAt(k) =>
        /\ k = Len(retry.trace)
        /\ \A i \in VerifyAt \ {k} : ~PassedAt(i)
        /\ Alternates
        /\ retry.pc = "returned"
        /\ retry.result.status = "SUCCESS"
        /\ Cardinality(VerifyAt) = Len(retry.attempts)
        /\ Cardinality(FixAt) = Len(retry.attempts) - 1
        /\ Len(retry.attempts) <= retry.maxRetries

\* C20 as claimed: at the first verify with a truthy pass key RetryNode stops
\* and returns SUCCESS with outputs passed = True and attempts = k, for every
\* pass key and every verify output map.
C20_Original ==
    /\ RetryStopsAtFirstPass
    /\ \A k \in VerifyAt : PassedAt(k) =>
          /\ retry.result.outputs["passed"] = "True"
          /\ retry.result.outputs["attempts"] = ToString(Len(retry.attempts))

\* C20 amended: at the first verify with a truthy pass key RetryNode stops and
\* returns SUCCESS; its outputs are {passed: True, attempts: k} overlaid with
\* the verify outputs, so passed = True and attempts = k hold unless the verify
\* outputs themselves have a "passed" or an "attempts" key, whose values win.
C20_RetrySuccess ==
    /\ RetryStopsAtFirstPass
    /\ \A k \in VerifyAt : PassedAt(k) =>
          LET vout == retry.trace[k].result.outputs
              out == retry.result.outputs
          IN /\ DOMAIN out = {"passed", "attempts"} \cup DOMAIN vout
             /\ \A key \in DOMAIN vout : out[key] = vout[key]
             /\ "passed" \notin DOMAIN vout => out["passed"] = "True"
             /\ "attempts" \notin DOMAIN vout =>
                   out["attempts"] = ToString(Len(retry.attempts))

\* C20 witness: pass key "ok", the second verify passes while reporting
\* passed = False of its own; run() returned SUCCESS after verify, fix, verify.
C20_Witness ==
    /\ retry.pc = "returned" /\ retry.passKey = "ok"
    /\ Len(retry.trace) = 3 /\ PassedAt(3)
    /\ retry.result.status = "SUCCESS"
    /\ retry.result.outputs["passed"] = "False"
    /\ retry.maxRetries = 3

\* the results of the verify executions, in order
VerifyResults ==
    LET vs == SelectSeq(retry.trace, LAMBDA e : e.node = "verify")
    IN [i \in 1..Len(vs) |-> vs[i].result]

\* the attempts log and the final result as the verify results alone fix them
LogOfVerifies(vs) ==
    [i \in 1..Len(vs) |->
        [attempt |-> i,
         passed |-> IF retry.passKey \in DOMAIN vs[i].outputs
                    THEN vs[i].outputs[retry.passKey] ELSE "False",
         error |-> vs[i].error]]

ResultOfVerifies(vs) ==
    IF vs = <<>> THEN RetryExhausted(<<>>, NoResult)
    ELSE IF Truthy(LogOfVerifies(vs)[Len(vs)].passed)
    THEN RetrySuccess(LogOfVerifies(vs), vs[Len(vs)])
    ELSE RetryExhausted(LogOfVerifies(vs), vs[Len(vs)])

\* a step in which the fix node's execute returns goes back to verify with the
\* next attempt number, whatever the fix returned
C21_FixStep ==
    \A o \in FixOutcomes : RetryFix(o) =>
        /\ retry'.pc = "verify"
        /\ retry'.attempt = retry.attempt + 1
        /\ retry'.attempt <= retry.maxRetries
        /\ retry'.attempts = retry.attempts
        /\ retry'.result = NoResult

\* when run() has returned, its result is the one the verify results fix, and
\* without a passing verify all maxRetries verifies (none when maxRetries <= 0)
\* were executed
C21_ResultFromVerifies ==
    retry.pc = "returned" =>
        /\ retry.result = ResultOfVerifies(VerifyResults)
        /\ retry.attempts = LogOfVerifies(VerifyResults)
        /\ (\A i \in VerifyAt : ~PassedAt(i)) =>
              Cardinality(VerifyAt) = IF retry.maxRetries > 0 THEN retry.maxRetries ELSE 0

\* C21: a failing fix never shortens the RetryNode loop: whatever the fix
\* execution returns (a fault absorbed into FAILURE included), the next verify
\* is executed while attempts remain, and the final result depends on the
\* verify outcomes only.
C21_FixNeverShortens == [](C21_ResultFromVerifies) /\ [][C21_FixStep]_vars

\* C21 witness: run() returned SUCCESS from the third verify after one fix
\* that raised and one fix that returned FAILURE.
C21_Witness ==
    /\ retry.pc = "returned" /\ retry.result.status = "SUCCESS"
    /\ Len(retry.trace) = 5
    /\ \E i, j \in FixAt :
          /\ retry.trace[i].result.status = "FAILURE"
          /\ retry.trace[i].result.error = "fixboom"
          /\ retry.trace[j].result.error = "fix failed"

\* ------------------------------------------------- GateNode in a Runner run
\* the recorded result of p is that of a GateNode whose predicate was false
GateClosed(p) ==
    /\ Recorded(p)
    /\ results[p].status = "SKIPPED"
    /\ "gate_open" \in DOMAIN results[p].outputs
    /\ results[p].outputs["gate_open"] = "False"

\* C22: a GateNode whose predicate returns False causes its downstream nodes
\* to be skipped: no successor of a gate that returned SKIPPED is executed.
C22_GateSkipsDownstream ==
    (InRun /\ ~dryRun) =>
        \A n \in Registered : (\E p \in Preds(n) : GateClosed(p)) => invoked[n] = 0

\* ------------------------------------------------- claims about Context
\* C23: Context.merge(ns, outputs) followed by get("ns.k") returns outputs[k]
\* for every k, and a merge into another namespace never changes the value
\* read back for a key merged before, for all namespace and key strings:
\* get("{ns}.{k}") is always the value last merged under ns for k.
C23_MergeIsolation ==
    \A p \in DOMAIN merged : CtxGet(ctx, Key(p[1], p[2]), "None") = merged[p]

\* ------------------------- claims about runs over arbitrary ids and results
\* C24: no two nodes ever write the same context key during a run: the keys
\* written for a node are disjoint from the keys written for every other node
\* of the graph.
C24_DisjointKeys ==
    InRun =>
        \A n \in Registered : \A m \in Registered \ {n} :
            (/\ Recorded(n) /\ results[n].status = "SUCCESS"
             /\ Recorded(m) /\ results[m].status = "SUCCESS") =>
                MergedKeys(n) \cap MergedKeys(m) = {}

\* C30 as claimed: every result in the report has metadata.level equal to the
\* index of its node's level, whatever metadata the node's run returned.
C30_Original ==
    InRun => \A n \in DOMAIN results : results[n].level = GroupIndex(n)

\* every recorded result has a level; the results the Runner builds itself
\* (upstream skip, dry run) carry the index of the node's level
C30_LevelPresent ==
    InRun =>
        \A n \in DOMAIN results :
            /\ results[n].level # NoLevel
            /\ (invoked[n] = 0) => results[n].level = GroupIndex(n)

\* the result of an executed node gets the index of its level unless its run
\* returned a level of its own, which is kept
C30_FinishStep ==
    \A n \in Registered : \A o \in FreeOutcomes :
        Finish(n, o) =>
            results'[n].level =
                IF ~o.raises /\ o.level # NoLevel THEN o.level ELSE GroupIndex(n)

\* C30 amended: after Runner processing every result in the report has a
\* metadata.level; it is the index of the node's level in graph.levels for
\* upstream-skipped and dry-run results and for executed nodes whose run
\* returned no "level" metadata (or raised); a "level" returned by the node's
\* own run is kept as it is.
C30_LevelStamp == [](C30_LevelPresent) /\ [][C30_FinishStep]_vars

\* C30 witness: a returned run in which one node kept the level 7 its run
\* returned, one failed in level 0 and its successor was skipped in level 1.
C30_Witness ==
    /\ pc = "done"
    /\ \E n, f, k \in DOMAIN results :
          /\ results[n].level = 7 /\ GroupIndex(n) = 0
          /\ Failed(f) /\ results[f].level = 0
          /\ UpstreamSkip(k) /\ results[k].level = 1

\* ----------------------------------------- claims about format_template
\* the {key} placeholders of template t: <<i, j>> with an opening brace at i,
\* the closing brace at j and a non-empty brace-free inner text between them
Placeholders(t) ==
    {p \in (1..Len(t)) \X (1..Len(t)) :
        /\ t[p[1]] = "{" /\ t[p[2]] = "}" /\ p[2] > p[1] + 1
        /\ \A m \in (p[1] + 1)..(p[2] - 1) : t[m] \notin {"{", "}"}}

InnerText(t, p) == Join([m \in 1..(p[2] - p[1] - 1) |-> t[p[1] + m]])

PresentPlaceholders(t) == {p \in Placeholders(t) : InnerText(t, p) \in DOMAIN ctx}

\* what position m of the template contributes to the output
Piece(t, m) ==
    IF \E p \in PresentPlaceholders(t) : p[1] = m
    THEN LET p == CHOOSE q \in PresentPlaceholders(t) : q[1] = m
             v == ctx[InnerText(t, p)]
         IN IF v[1] = "'" THEN [k \in 1..(Len(v) - 2) |-> v[k + 1]] ELSE v
    ELSE IF \E p \in PresentPlaceholders(t) : p[1] < m /\ m <= p[2]
    THEN <<>>
    ELSE <<t[m]>>

RECURSIVE Pieces(_, _)
Pieces(t, m) == IF m = 0 THEN <<>> ELSE Pieces(t, m - 1) \o Piece(t, m)

\* C25: format_template replaces every {key} placeholder whose inner text
\* (verbatim, dots included) is a key of the context by the stringified value
\* and leaves every placeholder whose key is absent, and all other text,
\* exactly as written, also when present and absent keys are mixed.
C25_FormatTemplate ==
    tpl.pc = "returned" =>
        /\ tpl.result = Pieces(tpl.template, Len(tpl.template))
        /\ PresentPlaceholders(tpl.template) = {} => tpl.result = tpl.template

\* C25 witness: a template with a placeholder whose key is present and one
\* whose key is absent was formatted, and the context also holds a dotted key.
C25_Witness ==
    /\ tpl.pc = "returned"
    /\ "a.a" \in DOMAIN ctx
    /\ PresentPlaceholders(tpl.template) # {}
    /\ Placeholders(tpl.template) \ PresentPlaceholders(tpl.template) # {}

\* ------------------------------------ claims about add_node and add_edge
\* an add_edge call fails exactly when an end is unregistered; a successful
\* call records source -> target in the forward map and target <- source in
\* the reverse map and changes nothing else in them
C26_AddEdgeStep ==
    \A s, t \in IdsUpTo(MaxNodes) :
        AddEdge(s, t) =>
            /\ (err' = "ValueError") <=> (s \notin Registered \/ t \notin Registered)
            /\ (s \in Registered /\ t \in Registered) =>
                  /\ err' = "none"
                  /\ t \in edges'[s] /\ s \in reverse'[t]
                  /\ \A u \in Registered :
                        /\ edges'[u] \ edges[u] = IF u = s THEN {t} \ edges[u] ELSE {}
                        /\ reverse'[u] \ reverse[u] = IF u = t THEN {s} \ reverse[u] ELSE {}
                        /\ edges[u] \subseteq edges'[u]
                        /\ reverse[u] \subseteq reverse'[u]

\* a call that raises the unknown-node error leaves the registry and both
\* adjacency maps as they were
C26_FailureLeavesMaps ==
    err' = "ValueError" => (nodes' = nodes /\ edges' = edges /\ reverse' = reverse)

\* C26: add_edge(source, target) fails with an unknown-node error when source
\* or target is not registered and then leaves both adjacency maps unchanged;
\* otherwise it records source -> target in the forward map and
\* target <- source in the reverse map.
C26_AddEdge == [][C26_AddEdgeStep /\ C26_FailureLeavesMaps]_vars

\* C26 witness: an add_edge call has just failed on a graph that already has
\* two edges and a registered node.
C26_Witness ==
    /\ err = "ValueError"
    /\ EdgeCount >= 2
    /\ Len(nodes) < MaxNodes

\* C27 as claimed: add_node on a registered id resets the successor set and
\* the predecessor set of that id to empty.
C27_Original ==
    [][\A n \in Registered : AddNode(n) => (edges'[n] = {} /\ reverse'[n] = {})]_vars

\* C27 amended: add_node on a registered id replaces the stored node and
\* leaves the registry order and both adjacency maps, the successor set and
\* the predecessor set of that id included, exactly as they were.
C27_ReRegistrationKeepsEdges ==
    [][\A n \in Registered :
          AddNode(n) =>
              /\ replaced' = n
              /\ nodes' = nodes /\ edges' = edges /\ reverse' = reverse]_vars

\* C27 witness: the stored node of an id that has a successor and a
\* predecessor has just been replaced.
C27_Witness ==
    /\ replaced \in Registered
    /\ edges[replaced] # {}
    /\ reverse[replaced] # {}

\* C28: after any sequence of add_node and add_edge calls (failed add_edge
\* calls and re-registrations included) every id in either adjacency map is a
\* registered id, and v is in the successor set of u exactly when u is in the
\* predecessor set of v.
C28_AdjacencyConsistent ==
    /\ DOMAIN edges = Registered
    /\ DOMAIN reverse = Registered
    /\ \A u \in Registered : edges[u] \subseteq Registered /\ reverse[u] \subseteq Registered
    /\ \A u, v \in Registered : (v \in edges[u]) <=> (u \in reverse[v])

\* C28 witness: a graph at the edge bound, a self-edge among its edges, in
\* which a node with successors has just been re-registered.
C28_Witness ==
    /\ replaced \in Registered
    /\ edges[replaced] # {}
    /\ EdgeCount = MaxEdges
    /\ \E n \in Registered : n \in edges[n]

\* --------------------------------------- Runner.run on a graph with a cycle
\* C29: if the graph contains a cycle, Runner.run propagates CycleError before
\* invoking any node, in every mode: no node (one outside the cycle included)
\* is executed, no result is recorded, the context is the one handed in, and
\* the run takes no further step; a run that got past graph.levels has no cycle.
C29_CycleAbortsRun ==
    /\ InRun => ~HasCycle
    /\ pc = "raised" =>
          /\ HasCycle
          /\ err = "CycleError"
          /\ results = <<>>
          /\ \A n \in Registered : invoked[n] = 0
          /\ running = {} /\ pending = <<>>
          /\ ctx \in InitialContexts
          /\ ~ENABLED Next

\* C29 witness: run raised CycleError in dry-run mode on a graph in which a
\* node without predecessors lies outside the cycle.
C29_Witness ==
    /\ pc = "raised" /\ dryRun /\ failFast
    /\ ctx # <<>>
    /\ \E n \in Registered : Preds(n) = {} /\ n \notin Descendants(n)
    /\ \E m \in Registered : Cardinality(Descendants(m)) = 2 /\ m \in Descendants(m)

\* --------------------------------- more claims about RetryNode.run alone
\* the context holds every output of result r under namespace ns
Published(ns, r) ==
    \A k \in DOMAIN r.outputs :
        Key(ns, k) \in DOMAIN ctx /\ ctx[Key(ns, k)] = r.outputs[k]

\* C31: inside RetryNode each sub-result is published before the next step
\* runs: when the fix of attempt k is about to run the context holds attempt
\* k's verify outputs under "{node_id}.verify.*", when the verify of attempt
\* k + 1 is about to run it holds attempt k's fix outputs under
\* "{node_id}.fix.*", and when run() has returned it holds the last verify
\* outputs, whatever status verify or fix returned.
C31_SubResultsPublished ==
    /\ retry.pc = "fix" =>
          /\ retry.trace[Len(retry.trace)].node = "verify"
          /\ Cardinality(VerifyAt) = retry.attempt
          /\ Published(Key(RetryId, "verify"), retry.trace[Len(retry.trace)].result)
    /\ (retry.pc = "verify" /\ retry.trace # <<>>) =>
          /\ retry.trace[Len(retry.trace)].node = "fix"
          /\ Cardinality(FixAt) = retry.attempt - 1
          /\ Published(Key(RetryId, "fix"), retry.trace[Len(retry.trace)].result)
    /\ (retry.pc = "returned" /\ retry.trace # <<>>) =>
          Published(Key(RetryId, "verify"), retry.trace[Len(retry.trace)].result)

\* C31 witness: the second fix is about to run after a verify that returned
\* FAILURE with outputs, the first fix having returned FAILURE with outputs.
C31_Witness ==
    /\ retry.pc = "fix" /\ Len(retry.trace) = 3
    /\ retry.trace[3].result.status = "FAILURE"
    /\ retry.trace[3].result.outputs # <<>>
    /\ retry.trace[2].result.status = "FAILURE"
    /\ retry.trace[2].result.outputs = ("patched" :> "False")
    /\ Key(Key(RetryId, "fix"), "patched") \in DOMAIN ctx

\* the pass key of outcome o is truthy (a fault leaves no outputs)
OutcomePasses(o) ==
    /\ ~o.raises
    /\ retry.passKey \in DOMAIN o.outputs
    /\ o.outputs[retry.passKey] \notin {"False", "None", "0", "''"}

\* C35: RetryNode decides pass or fail only from the truthiness of passKey in
\* the verify outputs, not from the verify status: a verify with a truthy
\* passKey makes run() return SUCCESS also when its status is FAILURE; a verify
\* without passKey, with a falsy one, or one that raised is a failed attempt,
\* also when its status is SUCCESS.
C35_VerifyStep ==
    \A o \in VerifyOutcomes :
        RetryVerify(o) =>
            /\ OutcomePasses(o) =>
                  (retry'.pc = "returned" /\ retry'.result.status = "SUCCESS")
            /\ ~OutcomePasses(o) =>
                  /\ retry'.result.status # "SUCCESS"
                  /\ ~Truthy(retry'.attempts[Len(retry'.attempts)].passed)
                  /\ retry'.pc = IF retry.attempt < retry.maxRetries THEN "fix" ELSE "returned"
                  /\ retry'.pc = "returned" => retry'.result.status = "FAILURE"

C35_PassKeyDecides == [][C35_VerifyStep]_vars

\* C35 witness: run() returned SUCCESS from a verify whose status is FAILURE,
\* after an attempt whose verify returned SUCCESS without the pass key and an
\* attempt whose verify raised.
C35_Witness ==
    /\ retry.pc = "returned" /\ retry.result.status = "SUCCESS"
    /\ Len(retry.trace) = 5
    /\ retry.trace[5].result.status = "FAILURE"
    /\ \E i, j \in {1, 3} :
          /\ retry.trace[i].result.status = "SUCCESS"
          /\ retry.trace[i].result.outputs = <<>>
          /\ retry.trace[j].result.error = "boom"

\* C36: a RetryNode constructed with maxRetries <= 0 is accepted and, when
\* run, executes neither verify nor fix, writes nothing to the context and
\* returns FAILURE with outputs passed = False, attempts = 0 and an empty log.
C36_NoAttempts ==
    retry.maxRetries <= 0 =>
        /\ retry.trace = <<>>
        /\ retry.pc \in {"idle", "returned"}
        /\ ctx \in InitialContexts
        /\ retry.pc = "returned" =>
              /\ retry.result.status = "FAILURE"
              /\ retry.result.outputs = ("passed" :> "False") @@ ("attempts" :> "0")
              /\ retry.result.error = "Verification failed after 0 attempts"
              /\ retry.attempts = <<>>

\* C36 witness: run() of a RetryNode with maxRetries = -1 has returned on a
\* pre-seeded context.
C36_Witness ==
    /\ retry.maxRetries = -1 /\ retry.pc = "returned"
    /\ ctx # <<>>

\* C32: format_template makes a single left-to-right pass with no recursive
\* substitution: the text inserted for a placeholder stands in the result as
\* it is, between the formatted text before and the formatted text after the
\* placeholder; formatting "{a}" where context[a] is the string "{a.a}" and
\* a.a is present yields "{a.a}", not the value of a.a.
C32_SinglePass ==
    tpl.pc = "returned" =>
        LET t == tpl.template
        IN /\ \A p \in PresentPlaceholders(t) :
                 tpl.result =
                     FormatTemplate(ctx, SubSeq(t, 1, p[1] - 1))
                        \o Str(ctx[InnerText(t, p)])
                        \o FormatTemplate(ctx, SubSeq(t, p[2] + 1, Len(t)))
           /\ (t = <<"{", "a", "}">> /\ "a.a" \in DOMAIN ctx) =>
                 tpl.result = <<"{", "a", ".", "a", "}">>

\* C32 witness: "{a}" was formatted on a context whose value for a is the
\* string "{a.a}" while a.a is present.
C32_Witness ==
    /\ tpl.pc = "returned"
    /\ tpl.template = <<"{", "a", "}">>
    /\ "a.a" \in DOMAIN ctx
    /\ Str(ctx["a"]) = <<"{", "a", ".", "a", "}">>
    /\ tpl.result = Str(ctx["a"])

\* ------------------------------------------ claims about the Runner's report
\* C33 as stated: with failFast = true no node is recorded as SKIPPED with error
\* "upstream dependency failed", and every node in the report was invoked.
C33_Original ==
    (InRun /\ failFast) =>
        /\ \A n \in Registered : ~UpstreamSkip(n)
        /\ \A n \in DOMAIN results : invoked[n] = 1

\* C33 (amended): with failFast = true no node is ever recorded as SKIPPED with
\* error "upstream dependency failed", and no level is begun after a level that
\* holds a FAILURE; in a run that is not a dry run every node in the report was
\* invoked exactly once, in a dry run every node in the report is a dry-run
\* placeholder that was never invoked.
C33_NoUpstreamSkip ==
    (InRun /\ failFast) =>
        /\ \A n \in Registered : ~UpstreamSkip(n)
        /\ \A f, n \in Registered :
              (Failed(f) /\ GroupIndex(f) < GroupIndex(n)) =>
                  (~Recorded(n) /\ invoked[n] = 0)
        /\ ~dryRun => \A n \in DOMAIN results : invoked[n] = 1
        /\ dryRun => \A n \in DOMAIN results : results[n].dry_run /\ invoked[n] = 0

C33_Witness ==
    /\ pc = "done" /\ failFast /\ ~dryRun
    /\ Len(levels) >= 2
    /\ \E f, m \in Registered :
          /\ Failed(f) /\ invoked[f] = 1
          /\ f \in Preds(m)
          /\ ~Recorded(m)
    /\ \A n \in DOMAIN results : invoked[n] = 1

\* C34: when the run returns with failFast = false, or with dryRun = true
\* whatever failFast is, the ids in the report are exactly the ids registered
\* in the graph and each id was assigned in the report exactly once; during
\* any run an id is assigned at most once, and exactly the recorded ids were.
C34_ReportComplete ==
    /\ InRun =>
          \A n \in Registered : writes[n] = (IF Recorded(n) THEN 1 ELSE 0)
    /\ (pc = "done" /\ (~failFast \/ dryRun)) =>
          /\ DOMAIN results = Registered
          /\ \A n \in Registered : writes[n] = 1

C34_Witness ==
    /\ pc = "done" /\ ~failFast /\ ~dryRun
    /\ Len(nodes) = 3
    /\ DOMAIN results = Registered
    /\ \A n \in Registered : writes[n] = 1
    /\ \E f, k \in Registered : Failed(f) /\ UpstreamSkip(k) /\ invoked[k] = 0

\* C38: a dry run leaves the shared context unchanged: no step of a run with
\* dryRun = true changes the context, so the context when run returns is the
\* one it was handed.
C38_DryStep ==
    (dryRun /\ pc \in {"level", "gather"}) => ctx' = ctx

C38_DryRunKeepsContext ==
    /\ [][C38_DryStep]_vars
    /\ []((dryRun /\ InRun) => ctx \in InitialContexts)

C38_Witness ==
    /\ pc = "done" /\ dryRun /\ failFast
    /\ ctx = ("seed" :> "s")
    /\ Len(levels) >= 2
    /\ DOMAIN results = Registered

\* ------------------------------------- claims about a RetryNode in a run
\* context keys the RetryNode's attempts wrote: "r.verify.k" / "r.fix.k" for
\* every output key k of a verify / fix execution of the trace
RetryWritten ==
    UNION {{Key(Key(RetryId, retry.trace[i].node), k) :
               k \in DOMAIN retry.trace[i].result.outputs} :
           i \in 1..Len(retry.trace)}

\* C37: once the Runner has recorded the RetryNode "r" as FAILURE, every key
\* its attempts wrote under "r.verify." and "r.fix." is in the context, every
\* node invoked in a later level had those keys to read, and none of the
\* RetryNode's own outputs is in the context under "r.".
C37_AttemptKeysRemain ==
    (InRun /\ Failed(RetryId)) =>
        /\ RetryWritten \subseteq DOMAIN ctx
        /\ \A n \in Registered :
              (GroupIndex(n) > GroupIndex(RetryId) /\ invoked[n] = 1) =>
                  RetryWritten \subseteq seen[n]
        /\ \A k \in DOMAIN results[RetryId].outputs : Key(RetryId, k) \notin DOMAIN ctx

C37_Witness ==
    /\ pc = "done" /\ Failed(RetryId)
    /\ results[RetryId].outputs = ("passed" :> "False") @@ ("attempts" :> "2")
    /\ Key(Key(RetryId, "verify"), "passed") \in DOMAIN ctx
    /\ Key(Key(RetryId, "fix"), "patched") \in DOMAIN ctx
    /\ \E n \in Registered :
          /\ GroupIndex(n) > GroupIndex(RetryId)
          /\ invoked[n] = 1
          /\ Key(Key(RetryId, "verify"), "passed") \in seen[n]
          /\ Key(Key(RetryId, "fix"), "patched") \in seen[n]

====
